---- MODULE Spec2Model ----
(***************************************************************************)
(* Verification model of the CIE colour rendering index computation of     *)
(* src/src/cri.rs (CRI::try_from, cd, uv_kries, the lazily initialised TCS *)
(* dataset) and of Stimulus::set_luminance in src/src/stimulus.rs.         *)
(*                                                                         *)
(* f64 values are IEEE-754 binary64 values: signed zeros, subnormals,      *)
(* infinities and NaN, with every operation rounded to nearest, ties to    *)
(* even.  Integers of arbitrary size are sequences of base-10000 limbs,    *)
(* least significant first.                                                *)
(***************************************************************************)
EXTENDS Integers, Sequences, FiniteSets, TLC

(***************************************************************************)
(* Evaluation order.  Val({e : v \in {a}}) evaluates a once and binds its  *)
(* value to v, as a Rust `let` does.  Every operator below uses parameter  *)
(* and bound-variable names of its own.                                    *)
(***************************************************************************)
Val(S) == CHOOSE val_v \in S : TRUE

(***************************************************************************)
(* Natural numbers of arbitrary size.                                      *)
(***************************************************************************)
RECURSIVE NStrip(_)
NStrip(st_s) ==
    IF st_s = <<>> THEN st_s
    ELSE IF st_s[Len(st_s)] = 0 THEN NStrip(SubSeq(st_s, 1, Len(st_s) - 1)) ELSE st_s

RECURSIVE NOf(_)
NOf(of_k) == IF of_k = 0 THEN <<>> ELSE <<of_k % 10000>> \o NOf(of_k \div 10000)

NHead(hd_s) == IF hd_s = <<>> THEN 0 ELSE hd_s[1]

NTail(tl_s) == IF tl_s = <<>> THEN tl_s ELSE Tail(tl_s)

RECURSIVE NAddC(_, _, _)
NAddC(ad_a, ad_b, ad_c) ==
    IF ad_a = <<>> /\ ad_b = <<>> THEN (IF ad_c = 0 THEN <<>> ELSE <<ad_c>>)
    ELSE Val({<<ad_t % 10000>> \o NAddC(ad_ta, ad_tb, ad_t \div 10000) :
              ad_t \in {NHead(ad_a) + NHead(ad_b) + ad_c},
              ad_ta \in {NTail(ad_a)}, ad_tb \in {NTail(ad_b)}})

NAdd(na_a, na_b) == NAddC(na_a, na_b, 0)

RECURSIVE NSubB(_, _, _)
NSubB(sb_a, sb_b, sb_br) ==
    IF sb_a = <<>> THEN <<>>
    ELSE Val({IF sb_t < 0 THEN <<sb_t + 10000>> \o NSubB(sb_ta, sb_tb, 1)
              ELSE <<sb_t>> \o NSubB(sb_ta, sb_tb, 0) :
              sb_t \in {NHead(sb_a) - NHead(sb_b) - sb_br},
              sb_ta \in {NTail(sb_a)}, sb_tb \in {NTail(sb_b)}})

\* a - b for a >= b
NSub(ns_a, ns_b) == NStrip(NSubB(ns_a, ns_b, 0))

RECURSIVE NCmpAt(_, _, _)
NCmpAt(ca_a, ca_b, ca_i) ==
    IF ca_i = 0 THEN 0
    ELSE IF ca_a[ca_i] < ca_b[ca_i] THEN -1
    ELSE IF ca_a[ca_i] > ca_b[ca_i] THEN 1
    ELSE NCmpAt(ca_a, ca_b, ca_i - 1)

\* -1, 0 or 1 as a < b, a = b or a > b
NCmp(cm_a, cm_b) ==
    IF Len(cm_a) < Len(cm_b) THEN -1
    ELSE IF Len(cm_a) > Len(cm_b) THEN 1
    ELSE NCmpAt(cm_a, cm_b, Len(cm_a))

NLt(lt_a, lt_b) == NCmp(lt_a, lt_b) = -1

RECURSIVE NMulL(_, _, _)
NMulL(ml_a, ml_k, ml_c) ==
    IF ml_a = <<>> THEN (IF ml_c = 0 THEN <<>> ELSE <<ml_c>>)
    ELSE Val({<<ml_t % 10000>> \o NMulL(ml_ta, ml_k, ml_t \div 10000) :
              ml_t \in {ml_a[1] * ml_k + ml_c}, ml_ta \in {Tail(ml_a)}})

RECURSIVE NMul(_, _)
NMul(mu_a, mu_b) ==
    IF mu_a = <<>> \/ mu_b = <<>> THEN <<>>
    ELSE Val({NAdd(IF mu_b[1] = 0 THEN <<>> ELSE NMulL(mu_a, mu_b[1], 0),
                   IF mu_r = <<>> THEN mu_r ELSE <<0>> \o mu_r) :
              mu_r \in {NMul(mu_a, Tail(mu_b))}})

\* a * 10000^k
RECURSIVE NShift(_, _)
NShift(sh_a, sh_k) ==
    IF sh_k = 0 \/ sh_a = <<>> THEN sh_a ELSE <<0>> \o NShift(sh_a, sh_k - 1)

\* the two most significant limbs of a as one machine integer
NTop2(t2_a) ==
    IF Len(t2_a) = 1 THEN t2_a[1] ELSE t2_a[Len(t2_a)] * 10000 + t2_a[Len(t2_a) - 1]

\* one decimal digit of the long division of r * 10000 by m: <<q, r>> becomes
\* <<10 q + (10 r) div m, (10 r) mod m>>
NDigit(dg_qr, dg_m) ==
    Val({<<dg_a[1] * 10 + (dg_a[2] * 10) \div dg_m, (dg_a[2] * 10) % dg_m>> :
         dg_a \in {dg_qr}})

\* (r * 10000) div m for machine integers r < m
NScaledDiv(sd_r, sd_m) ==
    NDigit(NDigit(NDigit(NDigit(<<0, sd_r>>, sd_m), sd_m), sd_m), sd_m)[1]

\* <<q, k>> with 1 <= q < 10000 and q * 10000^k * b <= a, for a >= b > 0:
\* a quotient digit estimated from the leading limbs, never too large
NEstimate(es_a, es_b) ==
    IF Len(es_b) = 1
    THEN (IF es_a[Len(es_a)] >= es_b[1]
          THEN <<es_a[Len(es_a)] \div es_b[1], Len(es_a) - 1>>
          ELSE <<NTop2(es_a) \div es_b[1], Len(es_a) - 2>>)
    ELSE IF NTop2(es_a) > NTop2(es_b)
    THEN <<NTop2(es_a) \div (NTop2(es_b) + 1), Len(es_a) - Len(es_b)>>
    ELSE IF Len(es_a) = Len(es_b) THEN <<1, 0>>
    ELSE <<NScaledDiv(NTop2(es_a), NTop2(es_b) + 1), Len(es_a) - Len(es_b) - 1>>

\* one step of long division: <<q, r>> with r >= b becomes <<q + e, r - e * b>>
NReduce(rd_qr, rd_b) ==
    Val({<<NAdd(rd_qr[1], NShift(<<rd_e[1]>>, rd_e[2])),
           NSub(rd_qr[2], NShift(NMulL(rd_b, rd_e[1], 0), rd_e[2]))>> :
         rd_e \in {NEstimate(rd_qr[2], rd_b)}})

\* long division, at most n steps, as a balanced recursion of depth log n
RECURSIVE NDivLoop(_, _, _)
NDivLoop(dl_qr, dl_b, dl_n) ==
    IF NLt(dl_qr[2], dl_b) THEN dl_qr
    ELSE IF dl_n = 1 THEN NReduce(dl_qr, dl_b)
    ELSE Val({NDivLoop(dl_y, dl_b, dl_n - dl_n \div 2) :
              dl_y \in {NDivLoop(dl_qr, dl_b, dl_n \div 2)}})

\* <<a div b, a mod b>> for b > 0
NDivMod(dm_a, dm_b) ==
    Val({dm_qr \in {NDivLoop(<<(<<>>), dm_a>>, dm_b, 256)} : NLt(dm_qr[2], dm_b)})

(***************************************************************************)
(* Powers of two and bit lengths.                                          *)
(***************************************************************************)
\* <<2^0, 2^1, ..., 2^(2^j - 1)>>
RECURSIVE NPow2Seq(_)
NPow2Seq(pw_j) ==
    IF pw_j = 0 THEN << <<1>> >>
    ELSE Val({Val({pw_h \o [pw_i \in 1..Len(pw_h) |-> NMul(pw_h[pw_i], pw_t)] :
                   pw_t \in {NAdd(pw_h[Len(pw_h)], pw_h[Len(pw_h)])}}) :
              pw_h \in {NPow2Seq(pw_j - 1)}})

Pow2T == NPow2Seq(9)

\* 2^k for 0 <= k < 512
NPow2(p2_k) == Pow2T[p2_k + 1]

\* the number of bits of a: 0 for 0, else l with 2^(l-1) <= a < 2^l
NBitLen(bl_a) ==
    IF bl_a = <<>> THEN 0
    ELSE CHOOSE bl_l \in (13 * (Len(bl_a) - 1) + 1)..(14 * Len(bl_a)) :
            ~NLt(bl_a, NPow2(bl_l - 1)) /\ NLt(bl_a, NPow2(bl_l))

\* Newton's iteration for the integer square root, from x > sqrt(a)
RECURSIVE NSqrtLoop(_, _)
NSqrtLoop(ql_x, ql_a) ==
    Val({IF NLt(ql_y, ql_x) THEN NSqrtLoop(ql_y, ql_a) ELSE ql_x :
         ql_y \in {NDivMod(NAdd(ql_x, NDivMod(ql_a, ql_x)[1]), <<2>>)[1]}})

\* floor(sqrt(a)) for a > 0
NSqrt(qs_a) == NSqrtLoop(NPow2((NBitLen(qs_a) + 1) \div 2), qs_a)

\* Newton's iteration for the integer cube root, from x > cbrt(a)
RECURSIVE NCbrtLoop(_, _)
NCbrtLoop(cl_x, cl_a) ==
    Val({IF NLt(cl_y, cl_x) THEN NCbrtLoop(cl_y, cl_a) ELSE cl_x :
         cl_y \in {NDivMod(NAdd(NAdd(cl_x, cl_x), NDivMod(cl_a, NMul(cl_x, cl_x))[1]),
                           <<3>>)[1]}})

\* floor(cbrt(a)) for a > 0
NCbrt(cr_a) == NCbrtLoop(NPow2((NBitLen(cr_a) + 2) \div 3), cr_a)

(***************************************************************************)
(* f64: IEEE-754 binary64 with round-to-nearest, ties to even.  A value is *)
(* [k |-> "nan"], [k |-> "inf", s] or [k |-> "fin", s, m, e], the number   *)
(* (-1)^s * m * 2^e with 2^52 <= m < 2^53 and -1074 <= e <= 971 (normal),  *)
(* 0 < m < 2^52 and e = -1074 (subnormal), or m = 0 and e = 0 (zero).      *)
(***************************************************************************)
NaN == [k |-> "nan"]

FInf(fi_s) == [k |-> "inf", s |-> fi_s]

FZero(fz_s) == [k |-> "fin", s |-> fz_s, m |-> <<>>, e |-> 0]

IsFinite(ff_x) == ff_x.k = "fin"

IsZero(iz_x) == iz_x.k = "fin" /\ iz_x.m = <<>>

\* -1, 0 or 1; 0 for a zero of either sign and for NaN
FSign(fs_x) ==
    IF fs_x.k = "nan" THEN 0
    ELSE IF fs_x.k = "fin" /\ fs_x.m = <<>> THEN 0
    ELSE IF fs_x.s = 1 THEN -1 ELSE 1

FNeg(ng_x) ==
    Val({IF ng_a.k = "nan" THEN ng_a ELSE [ng_a EXCEPT !.s = 1 - ng_a.s] : ng_a \in {ng_x}})

\* a rounded significand m <= 2^53 with its exponent: carry and overflow
FPack(pk_s, pk_m, pk_e) ==
    IF pk_m = <<>> THEN FZero(pk_s)
    ELSE IF pk_m = NPow2(53)
    THEN (IF pk_e + 1 > 971 THEN FInf(pk_s)
          ELSE [k |-> "fin", s |-> pk_s, m |-> NPow2(52), e |-> pk_e + 1])
    ELSE IF pk_e > 971 THEN FInf(pk_s)
    ELSE [k |-> "fin", s |-> pk_s, m |-> pk_m, e |-> pk_e]

\* the shift that leaves 53 bits, or fewer at the bottom of the range
FShift(fh_l, fh_e) == IF fh_l - 53 > (0 - 1074) - fh_e THEN fh_l - 53 ELSE (0 - 1074) - fh_e

\* n div 2^sh rounded to nearest, ties to even; st: a non-zero part below n
FRoundShift(rs_s, rs_n, rs_e, rs_st, rs_sh) ==
    Val({Val({FPack(rs_s,
                    IF rs_c = 1 \/ (rs_c = 0 /\ (rs_st \/ NHead(rs_qr[1]) % 2 = 1))
                    THEN NAdd(rs_qr[1], <<1>>) ELSE rs_qr[1],
                    rs_e + rs_sh) :
              rs_c \in {NCmp(rs_qr[2], NPow2(rs_sh - 1))}}) :
         rs_qr \in {NDivMod(rs_n, NPow2(rs_sh))}})

\* the f64 nearest to (-1)^s * (n + t) * 2^e, where 0 < t < 1 when st holds
\* (n then has a bit or more below the last place) and t = 0 otherwise
FRound0(ro_s, ro_n, ro_e, ro_st, ro_l) ==
    Val({IF ro_sh <= 0 THEN FPack(ro_s, NMul(ro_n, NPow2(0 - ro_sh)), ro_e + ro_sh)
         ELSE IF ro_sh > ro_l + 1 THEN FZero(ro_s)
         ELSE FRoundShift(ro_s, ro_n, ro_e, ro_st, ro_sh) :
         ro_sh \in {FShift(ro_l, ro_e)}})

FRound(rn_s, rn_n, rn_e, rn_st) ==
    Val({IF rn_a = <<>> THEN FZero(rn_s)
         ELSE FRound0(rn_s, rn_a, rn_e, rn_st, NBitLen(rn_a)) : rn_a \in {rn_n}})

\* an f64 literal with the value of a machine integer
F(f_k) == IF f_k < 0 THEN FRound(1, NOf(0 - f_k), 0, FALSE) ELSE FRound(0, NOf(f_k), 0, FALSE)

\* the significand made 53 bits long: <<m * 2^t, e - t>>
FNormal(nl_x) ==
    Val({<<NMul(nl_x.m, NPow2(nl_t)), nl_x.e - nl_t>> : nl_t \in {53 - NBitLen(nl_x.m)}})

FMul0(fu_a, fu_b) ==
    IF fu_a.k = "nan" \/ fu_b.k = "nan" THEN NaN
    ELSE IF fu_a.k = "inf" \/ fu_b.k = "inf"
    THEN (IF IsZero(fu_a) \/ IsZero(fu_b) THEN NaN ELSE FInf((fu_a.s + fu_b.s) % 2))
    ELSE FRound((fu_a.s + fu_b.s) % 2, NMul(fu_a.m, fu_b.m), fu_a.e + fu_b.e, FALSE)

FMul(fm_x, fm_y) == Val({FMul0(fm_a, fm_b) : fm_a \in {fm_x}, fm_b \in {fm_y}})

\* hi + lo for finite non-zero values with hi.e >= lo.e
FAddOrdered(ao_hi, ao_lo) ==
    IF ao_hi.e - ao_lo.e > 60
    THEN (IF ao_hi.s = ao_lo.s
          THEN FRound(ao_hi.s, NMul(ao_hi.m, <<8>>), ao_hi.e - 3, TRUE)
          ELSE FRound(ao_hi.s, NSub(NMul(ao_hi.m, <<8>>), <<1>>), ao_hi.e - 3, TRUE))
    ELSE Val({IF ao_hi.s = ao_lo.s THEN FRound(ao_hi.s, NAdd(ao_n, ao_lo.m), ao_lo.e, FALSE)
              ELSE IF NCmp(ao_n, ao_lo.m) = 0 THEN FZero(0)
              ELSE IF NLt(ao_n, ao_lo.m)
              THEN FRound(ao_lo.s, NSub(ao_lo.m, ao_n), ao_lo.e, FALSE)
              ELSE FRound(ao_hi.s, NSub(ao_n, ao_lo.m), ao_lo.e, FALSE) :
              ao_n \in {NMul(ao_hi.m, NPow2(ao_hi.e - ao_lo.e))}})

FAdd0(fa_x, fa_y) ==
    IF fa_x.k = "nan" \/ fa_y.k = "nan" THEN NaN
    ELSE IF fa_x.k = "inf"
    THEN (IF fa_y.k = "inf" /\ fa_x.s # fa_y.s THEN NaN ELSE fa_x)
    ELSE IF fa_y.k = "inf" THEN fa_y
    ELSE IF fa_x.m = <<>> /\ fa_y.m = <<>>
    THEN (IF fa_x.s = fa_y.s THEN fa_x ELSE FZero(0))
    ELSE IF fa_x.m = <<>> THEN fa_y
    ELSE IF fa_y.m = <<>> THEN fa_x
    ELSE IF fa_x.e >= fa_y.e THEN FAddOrdered(fa_x, fa_y)
    ELSE FAddOrdered(fa_y, fa_x)

FAdd(fb_x, fb_y) == Val({FAdd0(fb_a, fb_b) : fb_a \in {fb_x}, fb_b \in {fb_y}})

FSub(fc_x, fc_y) == FAdd(fc_x, FNeg(fc_y))

\* x / y for finite non-zero values: 56 or 57 quotient bits and the remainder
FDivFinite(dv_s, dv_a, dv_b) ==
    Val({FRound(dv_s, dv_qr[1], dv_a[2] - dv_b[2] - 56, dv_qr[2] # <<>>) :
         dv_qr \in {NDivMod(NMul(dv_a[1], NPow2(56)), dv_b[1])}})

FDiv0(fd_a, fd_b) ==
    IF fd_a.k = "nan" \/ fd_b.k = "nan" THEN NaN
    ELSE IF fd_a.k = "inf"
    THEN (IF fd_b.k = "inf" THEN NaN ELSE FInf((fd_a.s + fd_b.s) % 2))
    ELSE IF fd_b.k = "inf" THEN FZero((fd_a.s + fd_b.s) % 2)
    ELSE IF fd_b.m = <<>>
    THEN (IF fd_a.m = <<>> THEN NaN ELSE FInf((fd_a.s + fd_b.s) % 2))
    ELSE IF fd_a.m = <<>> THEN FZero((fd_a.s + fd_b.s) % 2)
    ELSE FDivFinite((fd_a.s + fd_b.s) % 2, FNormal(fd_a), FNormal(fd_b))

FDiv(fe_x, fe_y) == Val({FDiv0(fe_a, fe_b) : fe_a \in {fe_x}, fe_b \in {fe_y}})

\* sqrt of m * 2^e, m of 53 bits: the root of m * 2^k, k = 58 or 59 with e - k even
FSqrtFinite(sr_me) ==
    Val({Val({Val({FRound(0, sr_r, (sr_me[2] - sr_k) \div 2, NMul(sr_r, sr_r) # sr_n) :
                   sr_r \in {NSqrt(sr_n)}}) :
              sr_n \in {NMul(sr_me[1], NPow2(sr_k))}}) :
         sr_k \in {IF sr_me[2] % 2 = 0 THEN 58 ELSE 59}})

FSqrt0(sq_a) ==
    IF sq_a.k = "nan" THEN NaN
    ELSE IF sq_a.k = "inf" THEN (IF sq_a.s = 0 THEN sq_a ELSE NaN)
    ELSE IF sq_a.m = <<>> THEN sq_a
    ELSE IF sq_a.s = 1 THEN NaN
    ELSE FSqrtFinite(FNormal(sq_a))

\* f64::sqrt
FSqrt(sq_x) == Val({FSqrt0(sq_b) : sq_b \in {sq_x}})

\* x < y; FALSE when either is NaN
FLt0(fl_a, fl_b) ==
    /\ fl_a.k # "nan"
    /\ fl_b.k # "nan"
    /\ fl_a # fl_b
    /\ FSign(FSub(fl_a, fl_b)) = -1

FLt(fk_x, fk_y) == Val({FLt0(fk_a, fk_b) : fk_a \in {fk_x}, fk_b \in {fk_y}})

\* x == y; FALSE when either is NaN, TRUE for 0.0 and -0.0
FEq(fq_x, fq_y) ==
    Val({fq_a.k # "nan" /\ fq_b.k # "nan" /\ (fq_a = fq_b \/ (IsZero(fq_a) /\ IsZero(fq_b))) :
         fq_a \in {fq_x}, fq_b \in {fq_y}})

FLe(fg_x, fg_y) == FLt(fg_x, fg_y) \/ FEq(fg_x, fg_y)

\* the f64 literal nearest to n/d, for machine integers n and d > 0
Q(q_n, q_d) == FDiv(F(q_n), F(q_d))

\* an f64 literal given in thousandths: M(1708) is 1.708
M(m_k) == Q(m_k, 1000)

(***************************************************************************)
(* Tristimulus values and the observer's conversions.  An XYZ is a record  *)
(* [x, y, z] of f64.                                                       *)
(***************************************************************************)
XYZ(xy_x, xy_y, xy_z) == [x |-> F(xy_x), y |-> F(xy_y), z |-> F(xy_z)]

\* CIE 1960 UCS chromaticity (u, v) of a tristimulus value
uv60(u6_t) ==
    Val({<<FDiv(FMul(F(4), u6_t.x), u6_s), FDiv(FMul(F(6), u6_t.y), u6_s)>> :
         u6_s \in {FAdd(FAdd(u6_t.x, FMul(F(15), u6_t.y)), FMul(F(3), u6_t.z))}})

\* tristimulus value of a CIE 1960 chromaticity (u, v) and a luminance l;
\* an error when the chromaticity does not determine a tristimulus value
try_from_luv60(lu_u, lu_v, lu_l) ==
    Val({Val({IF IsFinite(lu_t.x) /\ IsFinite(lu_t.y) /\ IsFinite(lu_t.z)
              THEN [ok |-> TRUE, xyz |-> lu_t]
              ELSE [ok |-> FALSE, xyz |-> lu_t] :
              lu_t \in {[x |-> FDiv(FMul(FDiv(FMul(F(3), lu_u), lu_s), lu_l),
                                    FDiv(FMul(F(2), lu_v), lu_s)),
                         y |-> lu_l,
                         z |-> FDiv(FMul(FSub(FSub(F(1), FDiv(FMul(F(3), lu_u), lu_s)),
                                              FDiv(FMul(F(2), lu_v), lu_s)), lu_l),
                                    FDiv(FMul(F(2), lu_v), lu_s))]}}) :
         lu_s \in {FAdd(FSub(FMul(F(2), lu_u), FMul(F(8), lu_v)), F(4))}})

\* cbrt of m * 2^e, m of 53 bits: the root of m * 2^k, 112 <= k <= 114 with
\* e - k a multiple of 3
CbrtFinite(cf_s, cf_me) ==
    Val({Val({Val({FRound(cf_s, cf_r, (cf_me[2] - cf_k) \div 3,
                          NMul(cf_r, NMul(cf_r, cf_r)) # cf_n) :
                   cf_r \in {NCbrt(cf_n)}}) :
              cf_n \in {NMul(cf_me[1], NPow2(cf_k))}}) :
         cf_k \in {112 + ((cf_me[2] - 112) % 3)}})

\* f64::cbrt, correctly rounded
Cbrt(cb_y) ==
    Val({IF cb_a.k # "fin" \/ cb_a.m = <<>> THEN cb_a ELSE CbrtFinite(cb_a.s, FNormal(cb_a)) :
         cb_a \in {cb_y}})

\* CIE 1964 (U*, V*, W*) of a tristimulus value relative to a white point
uvw64(w6_t, w6_ref) ==
    Val({<<FMul(FMul(F(13), w6_w), FSub(w6_uv[1], w6_n[1])),
           FMul(FMul(F(13), w6_w), FSub(w6_uv[2], w6_n[2])),
           w6_w>> :
         w6_w \in {FSub(FMul(F(25), Cbrt(w6_t.y)), F(17))},
         w6_uv \in {uv60(w6_t)}, w6_n \in {uv60(w6_ref)}})

(***************************************************************************)
(* cd and uv_kries, src/src/cri.rs lines 178-189.                          *)
(***************************************************************************)
cd(cd_uv60) ==
    Val({<<FDiv(FSub(FSub(F(4), cd_u), FMul(F(10), cd_v)), cd_v),
           FDiv(FAdd(FSub(FMul(M(1708), cd_v), FMul(M(1481), cd_u)), M(404)), cd_v)>> :
         cd_u \in {cd_uv60[1]}, cd_v \in {cd_uv60[2]}})

\* the denominator of uv_kries
kries_den(kd_cdt, kd_cdr, kd_cdti) ==
    FSub(FAdd(M(16518), FMul(FMul(M(1481), FDiv(kd_cdr[1], kd_cdt[1])), kd_cdti[1])),
         FMul(FDiv(kd_cdr[2], kd_cdt[2]), kd_cdti[2]))

\* uv_kries with 16.581 for 16.518 in a second copy of the denominator
uv_kries_typo(vt_cdt, vt_cdr, vt_cdti) ==
    Val({<<FDiv(FSub(FAdd(M(10872),
                          FMul(FMul(M(404), FDiv(vt_cdr[1], vt_cdt[1])), vt_cdti[1])),
                     FMul(FMul(F(4), FDiv(vt_cdr[2], vt_cdt[2])), vt_cdti[2])),
                vt_den),
           FDiv(M(5520), vt_den)>> :
         vt_den \in {FAdd(kries_den(vt_cdt, vt_cdr, vt_cdti), M(63))}})

uv_kries(vk_cdt, vk_cdr, vk_cdti) ==
    Val({<<FDiv(FSub(FAdd(M(10872),
                          FMul(FMul(M(404), FDiv(vk_cdr[1], vk_cdt[1])), vk_cdti[1])),
                     FMul(FMul(F(4), FDiv(vk_cdr[2], vk_cdt[2])), vk_cdti[2])),
                vk_den),
           FDiv(M(5520), vk_den)>> :
         vk_den \in {kries_den(vk_cdt, vk_cdr, vk_cdti)}})

\* line 105: 100.0 - 4.6 * (du.powi(2) + dv.powi(2) + dw.powi(2)).sqrt()
ri_value(rv_uvw, rv_uvwr) ==
    Val({FSub(F(100),
              FMul(Q(46, 10),
                   FSqrt(FAdd(FAdd(FMul(rv_du, rv_du), FMul(rv_dv, rv_dv)),
                              FMul(rv_dw, rv_dw))))) :
         rv_du \in {FSub(rv_uvw[1], rv_uvwr[1])},
         rv_dv \in {FSub(rv_uvw[2], rv_uvwr[2])},
         rv_dw \in {FSub(rv_uvw[3], rv_uvwr[3])}})

\* the index clamped at 0
ri_of_clamped(rc_uvw, rc_uvwr) ==
    Val({IF FLt(rc_r, F(0)) THEN F(0) ELSE rc_r : rc_r \in {ri_value(rc_uvw, rc_uvwr)}})

ri_of(ro_uvw, ro_uvwr) == ri_value(ro_uvw, ro_uvwr)

(***************************************************************************)
(* The CRI computation, CRI::try_from, as run by several threads.          *)
(*                                                                         *)
(* An illuminant is [spd, lum]: the relative spectral distribution and the *)
(* photometric illuminance.  The distribution of a measured source is      *)
(* named by what the collaborators make of it: the outcome of the CCT      *)
(* estimation, and whether its adapted sample chromaticities reconstruct   *)
(* to a tristimulus value.  A tristimulus value is named by the illuminant *)
(* and the sample it was computed from.                                    *)
(***************************************************************************)
N_TCS == 14

NThreads == 2

Threads == 1..NThreads

None == [kind |-> "None"]

Ok(ok_v) == [kind |-> "Ok", v |-> ok_v]

Err(er_e) == [kind |-> "Err", e |-> er_e]

Panic == [kind |-> "Panic"]

\* a local that is bound to a number
Some(so_v) == [kind |-> "Some", v |-> so_v]

\* a temperature of kv_k K; temperatures are counted in units of 0.0001 K
Kelvin(kv_k) == kv_k * 10000

\* the temperatures the CCT estimator returns
Temperatures ==
    {Kelvin(2932), Kelvin(5000), Kelvin(5000) + 1, Kelvin(5854), Kelvin(25001)}

\* the errors the CCT estimator returns
CctErrors == {"Estimation:TooLow", "Estimation:TooHigh"}

\* the error of the daylight model outside its range of validity
DaylightError == "Construction:OutOfRange"

\* a luminance of lx_k, and the luminance of a spectrum of NaN values
Lux(lx_k) == [kind |-> "lux", v |-> lx_k]

NoLux == [kind |-> "NaN"]

\* the illuminance of a measured source, before any rescaling
MeasuredLum == 50

\* the illuminance of a synthesised spectrum, before any rescaling
RawLum == 1

Measured(me_cct, me_luv) ==
    [spd |-> [kind |-> "measured", cct |-> me_cct, luv |-> me_luv], lum |-> Lux(MeasuredLum)]

\* the illuminance of a source with no power in the visible range
DarkLum == 0

\* a source of zero luminance (finite, non-negative values); its rescaled
\* copy holds NaN values, on which the outcome of the CCT estimation is not
\* fixed by this code and no chromaticity reconstructs to a tristimulus value
Dark(dk_cct) ==
    [spd |-> [kind |-> "measured", cct |-> dk_cct, luv |-> FALSE], lum |-> Lux(DarkLum)]

\* the light sources a caller passes
Inputs ==
    {Measured(Ok(in_t), TRUE) : in_t \in Temperatures}
    \cup {Measured(Err(in_e), TRUE) : in_e \in CctErrors}
    \cup {Measured(Ok(Kelvin(2932)), FALSE)}
    \cup {Dark(Err("Estimation:TooLow")), Dark(Ok(Kelvin(5854)))}

\* Stimulus::set_luminance: every value is multiplied by
\* l = luminance / (luminance of self), which leaves the relative distribution
\* and makes the luminance `luminance`; when the luminance of self is 0 or
\* NaN, l is infinite or NaN and the values, 0 * l, become NaN; self is taken
\* by value and returned
set_luminance(sl_self, sl_luminance) ==
    IF sl_self.lum.kind = "lux" /\ sl_self.lum.v # 0
    THEN [spd |-> sl_self.spd, lum |-> Lux(sl_luminance)]
    ELSE [spd |-> sl_self.spd, lum |-> NoLux]

\* Illuminant::set_illuminance
set_illuminance(si_self, si_illuminance) == set_luminance(si_self, si_illuminance)

\* Illuminant::clone
clone(cl_self) == cl_self

\* the rescaling applied to the caller's illuminant
normalized_in_place(np_illuminant) ==
    [borrowed |-> set_illuminance(np_illuminant, 100),
     owned |-> set_illuminance(np_illuminant, 100)]

\* line 61: the borrowed illuminant and the rescaled private copy
normalized(nz_illuminant) ==
    [borrowed |-> nz_illuminant,
     owned |-> set_illuminance(clone(nz_illuminant), 100)]

\* CIE1931.xyz(illuminant, sample) and CIE1931.xyz_from_spectrum(illuminant, None)
NoSample == [kind |-> "None"]

xyz(xz_illuminant, xz_sample) == [ill |-> xz_illuminant, sample |-> xz_sample]

\* XYZ::cct
cct(cc_xyz) ==
    IF cc_xyz.ill.spd.kind = "measured" THEN cc_xyz.ill.spd.cct
    ELSE Ok(cc_xyz.ill.spd.t)

\* Illuminant::planckian
planckian(pl_t) == [spd |-> [kind |-> "planckian", t |-> pl_t], lum |-> Lux(RawLum)]

\* Illuminant::d_illuminant: the CIE daylight model, valid up to D_MAX K
D_MAX == 25000

d_illuminant(di_t) ==
    IF di_t <= Kelvin(D_MAX) THEN Ok([spd |-> [kind |-> "daylight", t |-> di_t], lum |-> Lux(RawLum)])
    ELSE Err(DaylightError)

\* an error replaced by a generic one
question_mark_generic(qg_e) == "Error"

\* the ? operator: From<CmtError> for CmtError
question_mark(qm_e) == qm_e

\* the branch with < for <=
illuminant_ref_lt(lt_cct_dut) ==
    IF lt_cct_dut < Kelvin(5000)
    THEN [made |-> {<<"planckian", lt_cct_dut>>},
          r |-> Ok(set_illuminance(planckian(lt_cct_dut), 100))]
    ELSE [made |-> {<<"d_illuminant", lt_cct_dut>>},
          r |-> IF d_illuminant(lt_cct_dut).kind = "Err"
                THEN Err(question_mark(d_illuminant(lt_cct_dut).e))
                ELSE Ok(set_illuminance(d_illuminant(lt_cct_dut).v, 100))]

\* the daylight branch without its rescaling
illuminant_ref_unscaled(un_cct_dut) ==
    IF un_cct_dut <= Kelvin(5000)
    THEN [made |-> {<<"planckian", un_cct_dut>>},
          r |-> Ok(set_illuminance(planckian(un_cct_dut), 100))]
    ELSE [made |-> {<<"d_illuminant", un_cct_dut>>},
          r |-> IF d_illuminant(un_cct_dut).kind = "Err"
                THEN Err(question_mark(d_illuminant(un_cct_dut).e))
                ELSE Ok(d_illuminant(un_cct_dut).v)]

\* lines 75-79: the reference illuminant of a test source of CCT cct_dut; made
\* is the constructor called, r the illuminant or the error returned by ?
illuminant_ref(ir_cct_dut) ==
    IF ir_cct_dut <= Kelvin(5000)
    THEN [made |-> {<<"planckian", ir_cct_dut>>},
          r |-> Ok(set_illuminance(planckian(ir_cct_dut), 100))]
    ELSE [made |-> {<<"d_illuminant", ir_cct_dut>>},
          r |-> IF d_illuminant(ir_cct_dut).kind = "Err"
                THEN Err(question_mark(d_illuminant(ir_cct_dut).e))
                ELSE Ok(set_illuminance(d_illuminant(ir_cct_dut).v, 100))]

\* the TCS dataset: colorant i is the interpolated column i of TCS5
Colorant(co_i) == [kind |-> "Colorant", col |-> co_i]

\* lines 24-29: the initialiser of TCS
tcs_init == [ti_i \in 1..N_TCS |-> Colorant(ti_i)]

\* LazyLock: the cell is uninit, running (one thread runs the initialiser) or ready
\* a check without the lock: vacant until the dataset is published
tcs_vacant_racy(vr_cell) == vr_cell.state # "ready"

tcs_vacant(tv_cell) == tv_cell.state = "uninit"

\* a read that does not wait for the initialiser to complete
tcs_readable_early(re_cell) == re_cell.state # "uninit"

tcs_readable(tr_cell) == tr_cell.state = "ready"

\* lines 64-70 and 83-89: the tristimulus of every sample under an illuminant
xyz_samples(xs_illuminant, xs_tcs) ==
    [xs_i \in 1..Len(xs_tcs) |-> xyz(xs_illuminant, xs_tcs[xs_i])]

\* .collect::<Vec<_>>().try_into().unwrap() into [_; N_TCS]
try_into_array(ta_vec) == IF Len(ta_vec) = N_TCS THEN Ok(ta_vec) ELSE Panic

\* Option::unwrap
unwrap(uw_o) == IF uw_o.kind = "Some" THEN Ok(uw_o.v) ELSE Panic

\* the field xyz of an XYZ: the tristimulus of the sample, None for a value
\* computed without a sample
xyz_field(xf_xyz) == IF xf_xyz.sample.kind = "None" THEN None ELSE Some(xf_xyz)

\* lines 99-106, the closure applied to (xyzr, xyz): the Ri of one sample, named
\* by the four tristimulus values it is computed from; a panic when
\* xyz.xyz is None and when XYZ::try_from_luv60 fails
sample_ri(sr_xyz_dut, sr_xyz_ref, sr_xyzr, sr_xyz) ==
    IF unwrap(xyz_field(sr_xyz)).kind = "Panic" THEN Panic
    ELSE IF sr_xyz.ill.spd.kind = "measured" /\ ~sr_xyz.ill.spd.luv THEN Panic
    ELSE Ok([dut_white |-> sr_xyz_dut, ref_white |-> sr_xyz_ref,
             ref_sample |-> sr_xyzr, dut_sample |-> sr_xyz])

\* the zip with the test samples rotated by one
ri_zip_rotated(ro_xyz_dut, ro_xyz_ref, ro_ref_samples, ro_dut_samples) ==
    [ro_i \in 1..(IF Len(ro_ref_samples) < Len(ro_dut_samples)
                  THEN Len(ro_ref_samples) ELSE Len(ro_dut_samples)) |->
        sample_ri(ro_xyz_dut, ro_xyz_ref, ro_ref_samples[ro_i],
                  ro_dut_samples[(ro_i % Len(ro_dut_samples)) + 1])]

\* lines 95-106: xyz_ref_samples.iter().zip(xyz_dut_samples.iter()).map(..)
ri_zip(rz_xyz_dut, rz_xyz_ref, rz_ref_samples, rz_dut_samples) ==
    [rz_i \in 1..(IF Len(rz_ref_samples) < Len(rz_dut_samples)
                  THEN Len(rz_ref_samples) ELSE Len(rz_dut_samples)) |->
        sample_ri(rz_xyz_dut, rz_xyz_ref, rz_ref_samples[rz_i], rz_dut_samples[rz_i])]

\* lines 95-108: Ok(CRI(ri)), or the panic of a failed unwrap
ri_result(rr_xyz_dut, rr_xyz_ref, rr_ref_samples, rr_dut_samples) ==
    Val({IF \E rr_i \in DOMAIN rr_ri : rr_ri[rr_i].kind = "Panic" THEN Panic
         ELSE IF try_into_array(rr_ri).kind = "Panic" THEN Panic
         ELSE Ok([rr_j \in 1..N_TCS |-> rr_ri[rr_j].v]) :
         rr_ri \in {ri_zip(rr_xyz_dut, rr_xyz_ref, rr_ref_samples, rr_dut_samples)}})

\* lines 119-121: CRI::try_new(s) returns the result of s.try_into()
try_new(tn_result) == tn_result

VARIABLES input, pc, loc, result, tcs, inits, smp

vars == <<input, pc, loc, result, tcs, inits, smp>>

NoLoc ==
    [illuminant |-> None, xyz_dut |-> None, xyz_dut_samples |-> None, cct_dut |-> None,
     made |-> {}, illuminant_ref |-> None, xyz_ref |-> None, xyz_ref_samples |-> None,
     back |-> "idle"]

SmpIdle == [pc |-> "off"]

Init ==
    /\ input \in [Threads -> Inputs]
    /\ pc = [in_t \in Threads |-> "idle"]
    /\ loc = [in_t \in Threads |-> NoLoc]
    /\ result = [in_t \in Threads |-> None]
    /\ tcs = [state |-> "uninit", data |-> <<>>]
    /\ inits = 0
    /\ smp = SmpIdle

\* lines 119-120 and 60-63: CRI::try_new(s) calls try_from, which makes the
\* private rescaled copy and computes the test white point
Call(t) ==
    /\ pc[t] = "idle"
    /\ input' = [input EXCEPT ![t] = normalized(input[t]).borrowed]
    /\ loc' = [loc EXCEPT ![t].illuminant = normalized(input[t]).owned,
                          ![t].xyz_dut = xyz(normalized(input[t]).owned, NoSample)]
    /\ pc' = [pc EXCEPT ![t] = "samples_dut"]
    /\ UNCHANGED <<result, tcs, inits, smp>>

\* the first dereference of TCS runs the initialiser; other threads wait
ForceBegin(t) ==
    /\ pc[t] \in {"samples_dut", "samples_ref"}
    /\ tcs_vacant(tcs)
    /\ tcs' = [tcs EXCEPT !.state = "running"]
    /\ loc' = [loc EXCEPT ![t].back = pc[t]]
    /\ pc' = [pc EXCEPT ![t] = "init"]
    /\ UNCHANGED <<input, result, inits, smp>>

\* lines 24-29: the initialiser completes and publishes the dataset
ForceEnd(t) ==
    /\ pc[t] = "init"
    /\ tcs' = [state |-> "ready", data |-> tcs_init]
    /\ inits' = inits + 1
    /\ pc' = [pc EXCEPT ![t] = loc[t].back]
    /\ UNCHANGED <<input, loc, result, smp>>

\* lines 64-70: the samples under the test illuminant
SamplesDut(t) ==
    /\ pc[t] = "samples_dut"
    /\ tcs_readable(tcs)
    /\ IF try_into_array(xyz_samples(loc[t].illuminant, tcs.data)).kind = "Panic"
       THEN /\ result' = [result EXCEPT ![t] = Panic]
            /\ pc' = [pc EXCEPT ![t] = "done"]
            /\ UNCHANGED loc
       ELSE /\ loc' = [loc EXCEPT ![t].xyz_dut_samples =
                           try_into_array(xyz_samples(loc[t].illuminant, tcs.data)).v]
            /\ pc' = [pc EXCEPT ![t] = "cct"]
            /\ UNCHANGED result
    /\ UNCHANGED <<input, tcs, inits, smp>>

\* line 73: xyz_dut.cct()?.t()
cct_stage(cs_xyz_dut) ==
    IF cct(cs_xyz_dut).kind = "Err" THEN Err(question_mark(cct(cs_xyz_dut).e))
    ELSE Ok(cct(cs_xyz_dut).v)

Cct(t) ==
    /\ pc[t] = "cct"
    /\ IF cct_stage(loc[t].xyz_dut).kind = "Err"
       THEN /\ result' = [result EXCEPT ![t] = try_new(cct_stage(loc[t].xyz_dut))]
            /\ pc' = [pc EXCEPT ![t] = "done"]
            /\ UNCHANGED loc
       ELSE /\ loc' = [loc EXCEPT ![t].cct_dut = Some(cct_stage(loc[t].xyz_dut).v)]
            /\ pc' = [pc EXCEPT ![t] = "ref"]
            /\ UNCHANGED result
    /\ UNCHANGED <<input, tcs, inits, smp>>

\* lines 75-82: the reference illuminant and its white point
Ref(t) ==
    /\ pc[t] = "ref"
    /\ IF illuminant_ref(loc[t].cct_dut.v).r.kind = "Err"
       THEN /\ result' = [result EXCEPT ![t] =
                              try_new(illuminant_ref(loc[t].cct_dut.v).r)]
            /\ pc' = [pc EXCEPT ![t] = "done"]
            /\ loc' = [loc EXCEPT ![t].made = illuminant_ref(loc[t].cct_dut.v).made]
       ELSE /\ loc' = [loc EXCEPT ![t].made = illuminant_ref(loc[t].cct_dut.v).made,
                                  ![t].illuminant_ref = illuminant_ref(loc[t].cct_dut.v).r.v,
                                  ![t].xyz_ref =
                                      xyz(illuminant_ref(loc[t].cct_dut.v).r.v, NoSample)]
            /\ pc' = [pc EXCEPT ![t] = "samples_ref"]
            /\ UNCHANGED result
    /\ UNCHANGED <<input, tcs, inits, smp>>

\* lines 83-89: the samples under the reference illuminant
SamplesRef(t) ==
    /\ pc[t] = "samples_ref"
    /\ tcs_readable(tcs)
    /\ IF try_into_array(xyz_samples(loc[t].illuminant_ref, tcs.data)).kind = "Panic"
       THEN /\ result' = [result EXCEPT ![t] = Panic]
            /\ pc' = [pc EXCEPT ![t] = "done"]
            /\ UNCHANGED loc
       ELSE /\ loc' = [loc EXCEPT ![t].xyz_ref_samples =
                           try_into_array(xyz_samples(loc[t].illuminant_ref, tcs.data)).v]
            /\ pc' = [pc EXCEPT ![t] = "ri"]
            /\ UNCHANGED result
    /\ UNCHANGED <<input, tcs, inits, smp>>

\* lines 92-108: the 14 Ri and the return
Ri(t) ==
    /\ pc[t] = "ri"
    /\ result' = [result EXCEPT ![t] =
                      try_new(ri_result(loc[t].xyz_dut, loc[t].xyz_ref,
                                        loc[t].xyz_ref_samples, loc[t].xyz_dut_samples))]
    /\ pc' = [pc EXCEPT ![t] = "done"]
    /\ UNCHANGED <<input, loc, tcs, inits, smp>>

Next ==
    \E t \in Threads :
        \/ Call(t)
        \/ ForceBegin(t)
        \/ ForceEnd(t)
        \/ SamplesDut(t)
        \/ Cct(t)
        \/ Ref(t)
        \/ SamplesRef(t)
        \/ Ri(t)

Spec == Init /\ [][Next]_vars

(***************************************************************************)
(* The arithmetic of one sample, lines 92-106, on tristimulus values.      *)
(* The white points and the sample under the two illuminants are drawn     *)
(* from small sets; the closure is followed statement by statement.        *)
(***************************************************************************)
\* white points of test sources; the last has Z = 0, which makes ct = 0
WhitesDut == {XYZ(95, 100, 108), XYZ(105, 100, 45), XYZ(90, 100, 0)}

\* white points of reference illuminants
WhitesRef == {XYZ(95, 100, 108), XYZ(105, 100, 45)}

\* the largest cube root of a sample luminance
MaxRoot == 3

\* a sample under a reference illuminant; Y is a cube, on which cbrt is exact
RefSamples ==
    {XYZ(30, rs_k * rs_k * rs_k, 20) : rs_k \in 2..MaxRoot} \cup {XYZ(4, 1, 37)}

\* a sample under a test source; Y = 0 makes v = 0
DutSamples == RefSamples \cup {XYZ(20, 0, 10)}

\* xyz is the field xyz.xyz of the sample under the test source, which the
\* observer sets to Some for a value computed with a sample
SmpStart(st_xyz_dut, st_xyz_ref, st_xyzr, st_xyz) ==
    [pc |-> "whites", xyz_dut |-> st_xyz_dut, xyz_ref |-> st_xyz_ref,
     xyzr |-> st_xyzr, xyz |-> Some(st_xyz),
     cdt |-> None, cdr |-> None, cdti |-> None, uv_vk |-> None, xyz_vk |-> None,
     uvw |-> None, uvwr |-> None, out |-> None]

InitSample ==
    /\ input = [is_t \in Threads |-> Measured(Ok(Kelvin(5000)), TRUE)]
    /\ pc = [is_t \in Threads |-> "off"]
    /\ loc = [is_t \in Threads |-> NoLoc]
    /\ result = [is_t \in Threads |-> None]
    /\ tcs = [state |-> "uninit", data |-> <<>>]
    /\ inits = 0
    /\ \E is_a \in WhitesDut, is_b \in WhitesRef, is_c \in RefSamples, is_d \in DutSamples :
          smp = SmpStart(is_a, is_b, is_c, is_d)

\* lines 92-93
SampleWhites ==
    /\ smp.pc = "whites"
    /\ smp' = [smp EXCEPT !.cdt = cd(uv60(smp.xyz_dut)),
                          !.cdr = cd(uv60(smp.xyz_ref)),
                          !.pc = "adapt"]
    /\ UNCHANGED <<input, pc, loc, result, tcs, inits>>

\* lines 100-101
SampleAdapt ==
    /\ smp.pc = "adapt"
    /\ \E sa_cdti \in {cd(uv60(smp.xyz.v))} :
          smp' = [smp EXCEPT !.cdti = sa_cdti,
                             !.uv_vk = uv_kries(smp.cdt, smp.cdr, sa_cdti),
                             !.pc = "luv"]
    /\ UNCHANGED <<input, pc, loc, result, tcs, inits>>

\* line 102: xyz.xyz.unwrap() panics when the field is None, and the outer
\* .unwrap() panics when XYZ::try_from_luv60 fails
SampleLuv ==
    /\ smp.pc = "luv"
    /\ IF unwrap(smp.xyz).kind = "Panic"
       THEN smp' = [smp EXCEPT !.out = Panic, !.pc = "done"]
       ELSE \E sl_r \in {try_from_luv60(smp.uv_vk[1], smp.uv_vk[2],
                                        unwrap(smp.xyz).v.y)} :
               smp' = IF sl_r.ok
                      THEN [smp EXCEPT !.xyz_vk = sl_r.xyz, !.pc = "uvw"]
                      ELSE [smp EXCEPT !.out = Panic, !.pc = "done"]
    /\ UNCHANGED <<input, pc, loc, result, tcs, inits>>

\* lines 103-104
SampleUvw ==
    /\ smp.pc = "uvw"
    /\ smp' = [smp EXCEPT !.uvw = uvw64(smp.xyz_vk, smp.xyz_ref),
                          !.uvwr = uvw64(smp.xyzr, smp.xyz_ref),
                          !.pc = "ri"]
    /\ UNCHANGED <<input, pc, loc, result, tcs, inits>>

\* line 105, and the value as it is returned in Ok(CRI(ri))
SampleRi ==
    /\ smp.pc = "ri"
    /\ smp' = [smp EXCEPT !.out = Ok(ri_of(smp.uvw, smp.uvwr)), !.pc = "done"]
    /\ UNCHANGED <<input, pc, loc, result, tcs, inits>>

NextSample ==
    \/ SampleWhites
    \/ SampleAdapt
    \/ SampleLuv
    \/ SampleUvw
    \/ SampleRi

SpecSample == InitSample /\ [][NextSample]_vars

(***************************************************************************)
(* Properties of the computation (Spec).                                   *)
(***************************************************************************)
\* C1: once the CCT is estimated, the temperature kept is the one the estimator
\* returned; the reference illuminant is the Planckian radiator at that
\* temperature when it is <= 5000 (5000 included) and the daylight illuminant
\* at that temperature when it is > 5000; exactly one constructor is called,
\* with that temperature.
C1_ReferenceBranch ==
    \A t \in Threads :
        /\ loc[t].cct_dut # None => input[t].spd.cct = Ok(loc[t].cct_dut.v)
        /\ pc[t] \in {"idle", "samples_dut", "cct", "ref"} => loc[t].made = {}
        /\ loc[t].made # {} =>
              /\ Cardinality(loc[t].made) = 1
              /\ loc[t].cct_dut.v <= Kelvin(5000) =>
                    loc[t].made = {<<"planckian", loc[t].cct_dut.v>>}
              /\ loc[t].cct_dut.v > Kelvin(5000) =>
                    loc[t].made = {<<"d_illuminant", loc[t].cct_dut.v>>}
        /\ loc[t].illuminant_ref # None =>
              /\ loc[t].illuminant_ref.spd.t = loc[t].cct_dut.v
              /\ loc[t].cct_dut.v <= Kelvin(5000) =>
                    loc[t].illuminant_ref.spd.kind = "planckian"
              /\ loc[t].cct_dut.v > Kelvin(5000) =>
                    loc[t].illuminant_ref.spd.kind = "daylight"
        /\ (pc[t] = "done" /\ loc[t].cct_dut # None /\ loc[t].cct_dut.v <= Kelvin(5000)) =>
              loc[t].illuminant_ref # None

\* one computation at exactly 5000 K on the Planckian branch, another at
\* 5000.0001 K on the daylight branch
C1_Witness ==
    \E t \in Threads, w1_u \in Threads :
        /\ loc[t].cct_dut = Some(Kelvin(5000))
        /\ loc[t].illuminant_ref # None
        /\ loc[t].illuminant_ref.spd.kind = "planckian"
        /\ loc[w1_u].cct_dut = Some(Kelvin(5000) + 1)
        /\ loc[w1_u].illuminant_ref # None
        /\ loc[w1_u].illuminant_ref.spd.kind = "daylight"

\* C2: when the CCT estimation fails, no temperature is kept, no reference
\* illuminant is constructed and the call returns Err with the estimator's
\* error; when the daylight construction fails, no reference white point or
\* sample is computed and the call returns Err with the constructor's error;
\* an Err carries no index values.
C2_ErrorPropagation ==
    \A t \in Threads :
        /\ input[t].spd.cct.kind = "Err" =>
              /\ loc[t].cct_dut = None
              /\ loc[t].made = {}
              /\ loc[t].illuminant_ref = None
              /\ loc[t].xyz_ref = None
              /\ loc[t].xyz_ref_samples = None
              /\ pc[t] \notin {"ref", "samples_ref", "ri"}
              /\ pc[t] = "done" => result[t] = Err(input[t].spd.cct.e)
              /\ pc[t] # "done" => result[t] = None
        /\ (loc[t].cct_dut # None /\ loc[t].cct_dut.v > Kelvin(D_MAX)) =>
              /\ loc[t].illuminant_ref = None
              /\ loc[t].xyz_ref = None
              /\ loc[t].xyz_ref_samples = None
              /\ pc[t] \notin {"samples_ref", "ri"}
              /\ pc[t] = "done" => result[t] = Err(DaylightError)
              /\ pc[t] # "done" => result[t] = None
        /\ result[t].kind = "Err" => DOMAIN result[t] = {"kind", "e"}

\* a failed estimation and a failed daylight construction, both returned
C2_Witness ==
    \E t \in Threads, w2_u \in Threads :
        /\ pc[t] = "done"
        /\ result[t] = Err("Estimation:TooHigh")
        /\ pc[w2_u] = "done"
        /\ result[w2_u] = Err(DaylightError)

\* C3: a successful call returns exactly 14 values, and the value at position
\* i is computed from sample i of the dataset under the test illuminant paired
\* with the same sample i under the reference illuminant.
C3_IndexAligned ==
    \A t \in Threads :
        result[t].kind = "Ok" =>
            /\ DOMAIN result[t].v = 1..14
            /\ \A c3_i \in 1..14 :
                  /\ tcs.data[c3_i].col = c3_i
                  /\ result[t].v[c3_i].dut_sample.sample = tcs.data[c3_i]
                  /\ result[t].v[c3_i].ref_sample.sample = tcs.data[c3_i]
                  /\ result[t].v[c3_i].dut_sample.ill = loc[t].illuminant
                  /\ result[t].v[c3_i].ref_sample.ill = loc[t].illuminant_ref
                  /\ result[t].v[c3_i].dut_white = loc[t].xyz_dut
                  /\ result[t].v[c3_i].ref_white = loc[t].xyz_ref

\* a successful call
C3_Witness ==
    \E t \in Threads :
        /\ pc[t] = "done"
        /\ result[t].kind = "Ok"
        /\ Len(result[t].v) = 14

\* C6: the initialiser of TCS runs at most once and at most one thread is
\* inside it; a thread that holds sample values read them from the completed
\* dataset; once published the dataset is the 14 colorants in order.
C6_InitOnce ==
    /\ inits <= 1
    /\ Cardinality({c6_t \in Threads : pc[c6_t] = "init"}) <= 1
    /\ tcs.state = "ready" =>
          /\ inits = 1
          /\ tcs.data = [c6_i \in 1..14 |-> Colorant(c6_i)]
    /\ tcs.state # "ready" => inits = 0
    /\ \A t \in Threads :
          /\ loc[t].xyz_dut_samples # None =>
                /\ tcs.state = "ready"
                /\ \A c6_j \in 1..14 : loc[t].xyz_dut_samples[c6_j].sample = Colorant(c6_j)
          /\ loc[t].xyz_ref_samples # None =>
                /\ tcs.state = "ready"
                /\ \A c6_k \in 1..14 : loc[t].xyz_ref_samples[c6_k].sample = Colorant(c6_k)

\* two threads at the first use at the same time: one runs the initialiser,
\* the other waits for it
C6_Witness ==
    \E t \in Threads, w6_u \in Threads :
        /\ pc[t] = "init"
        /\ pc[w6_u] = "samples_dut"
        /\ tcs.state = "running"

\* C7: two completed calls on the same illuminant have the same outcome.
C7_Deterministic ==
    \A t \in Threads, c7_u \in Threads :
        (pc[t] = "done" /\ pc[c7_u] = "done" /\ input[t] = input[c7_u])
            => result[t] = result[c7_u]

\* two successful calls on the same illuminant
C7_Witness ==
    \E t \in Threads, w7_u \in Threads :
        /\ t # w7_u
        /\ input[t] = input[w7_u]
        /\ pc[t] = "done"
        /\ pc[w7_u] = "done"
        /\ result[t].kind = "Ok"
        /\ result[w7_u].kind = "Ok"

\* C8: no step changes a caller's illuminant, and no step changes the dataset
\* once it is published.
C8_NoSideEffect ==
    [][/\ \A t \in Threads : input'[t] = input[t]
       /\ tcs.state = "ready" => tcs' = tcs]_vars

\* a completed call whose private copy was rescaled while the caller's
\* illuminant kept its own illuminance
C8_Witness ==
    \E t \in Threads :
        /\ pc[t] = "done"
        /\ loc[t].illuminant.lum = Lux(100)
        /\ input[t].lum = Lux(MeasuredLum)
        /\ tcs.state = "ready"

\* the illuminance of the rescaled copy of a source: 100, or NaN for a source
\* of zero luminance
RescaledLum(rl_input) == IF rl_input.lum.v # 0 THEN Lux(100) ELSE NoLux

NonZeroFinite(nf_x) == IsFinite(nf_x) /\ ~IsZero(nf_x)

\* |x - y| <= tol
Near(nr_x, nr_y, nr_tol) ==
    Val({FLe(nr_d, nr_tol) /\ FLe(FNeg(nr_tol), nr_d) : nr_d \in {FSub(nr_x, nr_y)}})

\* 2^-40, the tolerance on a chromaticity
UvTol == FDiv(F(1), FMul(F(1048576), F(1048576)))

\* 0.05, the tolerance on an index
RiTol == Q(5, 100)

\* the squared distance of two coordinate triples
DistSq(ds_a, ds_b) ==
    Val({FAdd(FAdd(FMul(ds_u, ds_u), FMul(ds_v, ds_v)), FMul(ds_w, ds_w)) :
         ds_u \in {FSub(ds_a[1], ds_b[1])},
         ds_v \in {FSub(ds_a[2], ds_b[2])},
         ds_w \in {FSub(ds_a[3], ds_b[3])}})

\* dE: the distance of the adapted sample from the sample under the reference
DeltaE == FSqrt(DistSq(smp.uvw, smp.uvwr))

\* C4: when cdt = cdr with non-zero components and the sample's v is not 0,
\* uv_kries returns the sample's own chromaticity, to within 2^-40; when the
\* white points coincide and the sample has the same tristimulus under both
\* illuminants, the colour difference is 0 and the index is 100, to within
\* 0.05.
C4_Identity ==
    /\ (/\ smp.uv_vk # None
        /\ smp.cdt = smp.cdr
        /\ NonZeroFinite(smp.cdt[1])
        /\ NonZeroFinite(smp.cdt[2])
        /\ NonZeroFinite(uv60(smp.xyz.v)[2]))
          => /\ Near(smp.uv_vk[1], uv60(smp.xyz.v)[1], UvTol)
             /\ Near(smp.uv_vk[2], uv60(smp.xyz.v)[2], UvTol)
    /\ (smp.pc = "done" /\ smp.xyz_dut = smp.xyz_ref /\ smp.xyz.v = smp.xyzr)
          => /\ smp.out.kind = "Ok"
             /\ Near(DeltaE, F(0), RiTol)
             /\ Near(smp.out.v, F(100), RiTol)

\* a completed sample with coinciding white points and tristimulus values,
\* whose adapted chromaticity differs from its own in the last place
C4_Witness ==
    /\ smp.pc = "done"
    /\ smp.xyz_dut = XYZ(105, 100, 45)
    /\ smp.xyz_ref = XYZ(105, 100, 45)
    /\ smp.xyz.v = XYZ(30, 8, 20)
    /\ smp.xyzr = XYZ(30, 8, 20)
    /\ smp.uv_vk # uv60(smp.xyz.v)
    /\ smp.out.kind = "Ok"
    /\ Near(smp.out.v, F(100), RiTol)

\* 2^-47, half the spacing of the f64 values below 100
HalfUlp == FDiv(F(1), FMul(F(8388608), F(16777216)))

\* C10: a returned Ri is the f64 value of 100 - 4.6 * dE, dE the distance
\* between the (U*, V*, W*) of the adapted sample (adapted chromaticity with
\* the luminance of the sample under the test source) and of the sample under
\* the reference, both relative to the reference white; it is <= 100, it is
\* 100 exactly when 4.6 * dE <= 2^-47, which dE = 0 satisfies, and it is
\* negative when dE > 100 / 4.6.
C10_RiFormula ==
    smp.out.kind = "Ok" =>
        \E c10_d \in {DeltaE} :
            /\ smp.xyz_vk.y = smp.xyz.v.y
            /\ smp.xyz_vk = try_from_luv60(smp.uv_vk[1], smp.uv_vk[2], smp.xyz.v.y).xyz
            /\ smp.uvw = uvw64(smp.xyz_vk, smp.xyz_ref)
            /\ smp.uvwr = uvw64(smp.xyzr, smp.xyz_ref)
            /\ smp.out.v = FSub(F(100), FMul(Q(46, 10), c10_d))
            /\ FLe(smp.out.v, F(100))
            /\ FEq(smp.out.v, F(100)) <=> FLe(FMul(Q(46, 10), c10_d), HalfUlp)
            /\ IsZero(c10_d) => FEq(smp.out.v, F(100))
            /\ FLt(FDiv(F(100), Q(46, 10)), c10_d) => FLt(smp.out.v, F(0))

\* a returned index of exactly 100 for a colour difference that is not 0
C10_Witness ==
    /\ smp.pc = "done"
    /\ smp.out.kind = "Ok"
    /\ FEq(smp.out.v, F(100))
    /\ ~IsZero(DeltaE)

\* C10 as stated: Ri = 100 - 4.6 * dE is <= 100, is 100 only when dE = 0, and
\* is negative when dE > 100 / 4.6.
C10_ExactHundred ==
    smp.out.kind = "Ok" =>
        \E ce_d \in {DeltaE} :
            /\ smp.out.v = FSub(F(100), FMul(Q(46, 10), ce_d))
            /\ FLe(smp.out.v, F(100))
            /\ FEq(smp.out.v, F(100)) => IsZero(ce_d)
            /\ FLt(FDiv(F(100), Q(46, 10)), ce_d) => FLt(smp.out.v, F(0))

\* a zero divisor met in the adaptation of the sample
ZeroDivisor ==
    /\ smp.cdt # None
    /\ \/ IsZero(uv60(smp.xyz_dut)[2])
       \/ IsZero(uv60(smp.xyz_ref)[2])
       \/ IsZero(uv60(smp.xyz.v)[2])
       \/ IsZero(smp.cdt[1])
       \/ IsZero(smp.cdt[2])
       \/ (smp.cdti # None /\ IsZero(kries_den(smp.cdt, smp.cdr, smp.cdti)))

\* C5: a computation that met a zero divisor in the adaptation ends in Err.
C5_DegeneracyIsErr ==
    (smp.pc = "done" /\ ZeroDivisor) => smp.out.kind = "Err"
====
